---- MODULE Spec2Model ----
(***************************************************************************)
(* Model of x84/bbs/msgbase.py: the message base of the x/84 bulletin      *)
(* board.  Msg.save persists a record in the 'msgbase' table, reconciles   *)
(* the 'tags' table, links the message into its parent's thread and, for a *)
(* new message, routes it to a hosted network's transit table or to a     *)
(* remote network's outbound queue table.                                  *)
(*                                                                         *)
(* Text (tags, ini values, message bodies, table keys) is a sequence of    *)
(* one-character strings.  An optional value is <<>> (Python's None) or    *)
(* <<v>>.  Every session runs Msg.save as a stack of frames, one frame per *)
(* active call of save, and each step below is one statement group of it.  *)
(***************************************************************************)
EXTENDS Integers, Sequences, FiniteSets, TLC

(***************************************************************************)
(* Bounds of the model                                                     *)
(***************************************************************************)
\* messages that may be created (ids 0 .. MaxMsgs-1)
MaxMsgs == 2
\* calls of Msg.save made by callers when sessions may overlap
MaxSaves == 2
\* calls of Msg.save made by callers when calls are made one after another
MaxSeqSaves == 2
\* messages and calls of Msg.save on the board whose threads grow three deep
MaxThreadMsgs == 3
MaxThreadSaves == 4
\* calls of Msg.save on the hub whose sessions overlap
MaxHubSaves == 3
\* frames of save that fit on one session's call stack: the calls a frame
\* beyond them makes run into the interpreter's recursion limit (stands for
\* Python's limit; an acyclic parent chain needs at most MaxThreadMsgs + 1
\* frames)
RecursionLimit == MaxThreadMsgs + 1

Sessions == {"s1", "s2"}

(***************************************************************************)
(* Optional values                                                         *)
(***************************************************************************)
None == <<>>
Some(v) == <<v>>
IsNone(o) == o = <<>>
Val(o) == o[1]

Range(f) == {f[i] : i \in DOMAIN f}

RECURSIVE SetMax(_)
SetMax(S) ==
    LET x == CHOOSE y \in S : TRUE
    IN  IF S = {x} THEN x
        ELSE LET m == SetMax(S \ {x}) IN IF x > m THEN x ELSE m

(***************************************************************************)
(* Text                                                                    *)
(***************************************************************************)
local == <<"l", "o", "c", "a", "l">>
fidonet == <<"f", "i", "d", "o", "n", "e", "t">>
public == <<"p", "u", "b", "l", "i", "c">>
hello == <<"h", "e", "l", "l", "o">>
bye == <<"b", "y", "e">>
comma == ","
\* the characters str.strip() drops from a str: space, \t, \n, \r, form feed
\* and vertical tab (the last string holds the character 0x0b itself)
Whitespace == {" ", "\t", "\n", "\r", "\f", ""}

\* str.split(','): the pieces between commas; the empty text splits to ['']
RECURSIVE SplitAcc(_, _, _)
SplitAcc(s, piece, done) ==
    IF s = <<>> THEN Append(done, piece)
    ELSE IF Head(s) = comma THEN SplitAcc(Tail(s), <<>>, Append(done, piece))
    ELSE SplitAcc(Tail(s), Append(piece, Head(s)), done)

Split(s) == SplitAcc(s, <<>>, <<>>)

\* str.strip(): drop leading and trailing whitespace
RECURSIVE LStrip(_)
LStrip(s) ==
    IF s # <<>> /\ Head(s) \in Whitespace THEN LStrip(Tail(s)) ELSE s

RECURSIVE RStrip(_)
RStrip(s) ==
    IF s # <<>> /\ s[Len(s)] \in Whitespace
    THEN RStrip(SubSeq(s, 1, Len(s) - 1)) ELSE s

Strip(s) == RStrip(LStrip(s))

\* [key.strip() for key in ini_value.split(',')]
ParseTagList(ini) == LET parts == Split(ini) IN [i \in DOMAIN parts |-> Strip(parts[i])]

Digits == <<"0", "1", "2", "3", "4", "5", "6", "7", "8", "9">>

\* '%d' % (n,) for n >= 0
RECURSIVE FormatInt(_)
FormatInt(n) ==
    IF n < 10 THEN <<Digits[n + 1]>>
    ELSE Append(FormatInt(n \div 10), Digits[(n % 10) + 1])

DigitVal(c) == (CHOOSE i \in DOMAIN Digits : Digits[i] = c) - 1

\* int(key) for a key of decimal digits
RECURSIVE ParseInt(_)
ParseInt(s) ==
    IF Len(s) = 1 THEN DigitVal(s[1])
    ELSE 10 * ParseInt(SubSeq(s, 1, Len(s) - 1)) + DigitVal(s[Len(s)])

(***************************************************************************)
(* Configuration (x84.bbs.ini.CFG), fixed for a run of the board           *)
(***************************************************************************)
bbsname == <<"x", "8", "4">>
SentFrom == <<"S", "e", "n", "t", " ", "f", "r", "o", "m", " ">>
OriginRule == <<"\r", "\n", "-", "-", "-", "\r", "\n">>
CommaSpace == <<",", " ">>

\* no [msg] network_tags option, although server_tags names a hosted network
CfgNoNetworks ==
    [network_tags |-> None, server_tags |-> Some(local),
     origin_line |-> None, bbsname |-> bbsname]
\* member of fidonet, hosts nothing, [msg] origin_line set
CfgMember ==
    [network_tags |-> Some(fidonet), server_tags |-> None,
     origin_line |-> Some(hello), bbsname |-> bbsname]
\* member of fidonet and hub of local
CfgHub ==
    [network_tags |-> Some(fidonet \o CommaSpace \o local), server_tags |-> Some(local),
     origin_line |-> None, bbsname |-> bbsname]

\* hub of local with an empty network_tags option, [msg] origin_line set
CfgLocalHub ==
    [network_tags |-> Some(<<>>), server_tags |-> Some(local),
     origin_line |-> Some(bye), bbsname |-> bbsname]

Configs == {CfgNoNetworks, CfgMember, CfgHub, CfgLocalHub}

\* the tags callers put on messages
Tags == {local, fidonet}
TagSets == SUBSET Tags
\* the envelopes callers write
Envelopes == {[recipient |-> Some("bob"), subject |-> "hi", body |-> hello]}
\* the arguments of save: the defaults, dispatch suppressed, a creation time given
DefaultArgs == [noqueue |-> FALSE, ctime |-> None]
SaveArgs ==
    {DefaultArgs,
     [noqueue |-> TRUE, ctime |-> None],
     [noqueue |-> FALSE, ctime |-> Some(0)]}

\* lines 37-43
get_origin_line(c) ==
    IF c.origin_line # None THEN Val(c.origin_line) ELSE SentFrom \o c.bbsname

\* line 46 without the rule that sets the origin line off
format_origin_lineNoRule(c) == get_origin_line(c)

\* lines 45-46
format_origin_line(c) == OriginRule \o get_origin_line(c)

(***************************************************************************)
(* State                                                                   *)
(***************************************************************************)
VARIABLES
    cfg,        \* the configuration
    callers,    \* how callers call save: how many messages they create, the
                \* tag sets and argument lists they use, and whether a session
                \* may call while another session is inside save
    clock,      \* datetime.datetime.now(): the next reading
    msgdb,      \* table 'msgbase': decimal key -> pickled Msg
    tagdb,      \* table 'tags': tag -> set of message ids
    transdb,    \* transit table of each hosted network: id -> id
    queuedb,    \* outbound queue table of each remote network: id -> tag
    locks,      \* holder of each table's lock (None when free)
    stack,      \* per session: the active calls of Msg.save, innermost last
    cur,        \* per session: the Msg object the session holds (None at first)
    result,     \* per session: how its last call of save ended, and its value
    budget,     \* calls of save callers may still make
    assignlog,  \* history: the ids minted by save, in the order they were minted
    netlog      \* history: the writes to transit and queue tables, in order

vars == <<cfg, callers, clock, msgdb, tagdb, transdb, queuedb, locks, stack, cur, result,
          budget, assignlog, netlog>>

\* the ids callers name as a parent: any id a message may get
Ids == 0 .. (callers.msgs - 1)
ParentChoices == {None} \cup {Some(i) : i \in Ids}

EmptyTable == [k \in {} |-> None]

\* Msg.__init__ with line 124 setting _stime as line 123 sets _ctime
MsgInitStamped(recipient, subject, body, now) ==
    [idx |-> None, ctime |-> now, stime |-> Some(now),
     recipient |-> recipient, subject |-> subject, body |-> body,
     tags |-> {}, children |-> {}, parent |-> None]

\* Msg.__init__; author (the session's handle) is not modelled
MsgInit(recipient, subject, body, now) ==
    [idx |-> None, ctime |-> now, stime |-> None,
     recipient |-> recipient, subject |-> subject, body |-> body,
     tags |-> {}, children |-> {}, parent |-> None]

(***************************************************************************)
(* DBProxy: a table is a mapping; a stored value is a copy of the object   *)
(***************************************************************************)
DbKeys(db) == DOMAIN db
DbHas(db, key) == key \in DOMAIN db
DbGet(db, key) == db[key]
DbSet(db, key, value) ==
    [k \in (DOMAIN db) \cup {key} |-> IF k = key THEN value ELSE db[k]]

LockFree(l) == l = None
Held(s) == Some(s)

MsgKey(idx) == FormatInt(idx)

\* get_msg(idx), defined when the record exists (KeyError otherwise)
get_msg(idx) == DbGet(msgdb, MsgKey(idx))

MsgExists(idx) == DbHas(msgdb, MsgKey(idx))

\* the loop of lines 63-64 ending at the first tag the table does not know
RECURSIVE TagUnionStop(_, _)
TagUnionStop(tags, msgs) ==
    IF tags = <<>> THEN msgs
    ELSE IF DbHas(tagdb, Head(tags))
         THEN TagUnionStop(Tail(tags), msgs \cup DbGet(tagdb, Head(tags)))
         ELSE msgs

\* lines 61-65: the union of the entries of the listed tags the table knows
RECURSIVE TagUnion(_, _)
TagUnion(tags, msgs) ==
    IF tags = <<>> THEN msgs
    ELSE IF DbHas(tagdb, Head(tags))
         THEN TagUnion(Tail(tags), msgs \cup DbGet(tagdb, Head(tags)))
         ELSE TagUnion(Tail(tags), msgs)

\* line 60 without its test of the length
list_msgsNoLength(tags) ==
    IF tags # None
    THEN TagUnion(Val(tags), {})
    ELSE {ParseInt(key) : key \in DbKeys(msgdb)}

\* lines 56-66: list_msgs(tags), tags is None or a list of tags
list_msgs(tags) ==
    IF tags # None /\ Len(Val(tags)) # 0
    THEN TagUnion(Val(tags), {})
    ELSE {ParseInt(key) : key \in DbKeys(msgdb)}

\* lines 69-74: list_tags() names the table TABDB, a name the module does not
\* define (the table of tags is TAGDB), so the call raises NameError before it
\* reads any table
list_tags == [status |-> "NameError", value |-> <<>>]

InitWith(configs, msgs, tagsets, arglists, overlap, calls) ==
    /\ cfg \in configs
    /\ callers = [msgs |-> msgs, tags |-> tagsets, args |-> arglists, overlap |-> overlap]
    /\ clock = 1
    /\ msgdb = EmptyTable
    /\ tagdb = EmptyTable
    /\ transdb = [t \in Tags |-> EmptyTable]
    /\ queuedb = [t \in Tags |-> EmptyTable]
    /\ locks = [msg |-> None, tag |-> None,
                trans |-> [t \in Tags |-> None], queue |-> [t \in Tags |-> None]]
    /\ stack = [s \in Sessions |-> <<>>]
    /\ cur = [s \in Sessions |-> None]
    /\ result = [s \in Sessions |-> [status |-> "idle", value |-> None]]
    /\ budget = calls
    /\ assignlog = <<>>
    /\ netlog = <<>>

(***************************************************************************)
(* Calls of Msg.save                                                       *)
(***************************************************************************)
Top(s) == stack[s][Len(stack[s])]
Active(s) == stack[s] # <<>>
At(s, pc) == Active(s) /\ Top(s).pc = pc
SetTop(s, f) == [stack EXCEPT ![s] = [@ EXCEPT ![Len(@)] = f]]

\* line 145: new = self.idx is None or self._stime is None
IsNew(obj) == obj.idx = None \/ obj.stime = None

\* a call of obj.save(noqueue, ctime), about to take the message-table lock;
\* entry keeps the object as the caller passed it, done the effects the call
\* has had so far, in their order: a write of the message table ("msg"), a
\* reconciliation of the tag table ("tag"), an update of the parent's children
\* ("child"), the start of the dispatch step ("dispatch"), a write of a
\* transit or queue table ("net")
Frame(obj, kind, noqueue, ctime) ==
    [obj |-> obj, entry |-> obj, kind |-> kind, pc |-> "msg_acquire",
     new |-> IsNew(obj), noqueue |-> noqueue, ctime |-> ctime, pending |-> <<>>,
     done |-> <<>>]

\* never-saved messages whose save has not minted their id yet
Unminted == {s \in Sessions : Active(s) /\ stack[s][1].obj.idx = None}

CanCreate == Cardinality(DbKeys(msgdb)) + Cardinality(Unminted) < callers.msgs

Call(s, obj, noqueue, ctime) ==
    /\ ~Active(s)
    /\ callers.overlap \/ \A q \in Sessions : ~Active(q)
    /\ budget > 0
    /\ budget' = budget - 1
    /\ stack' = [stack EXCEPT ![s] = <<Frame(obj, "call", noqueue, ctime)>>]
    /\ cur' = [cur EXCEPT ![s] = Some(obj)]
    /\ result' = [result EXCEPT ![s] = [status |-> "running", value |-> None]]
    /\ UNCHANGED <<cfg, callers, msgdb, tagdb, transdb, queuedb, locks, assignlog, netlog>>

\* m = Msg(recipient, subject, body); m.tags = tags; m.parent = parent; m.save(...)
SaveNewMsg(s) ==
    \E env \in Envelopes, tags \in callers.tags, parent \in ParentChoices, args \in callers.args :
        /\ CanCreate
        /\ clock' = clock + 1
        /\ Call(s, [MsgInit(env.recipient, env.subject, env.body, clock)
                        EXCEPT !.tags = tags, !.parent = parent],
                args.noqueue, args.ctime)

\* what a caller does to a saved message before it saves it again: it sets the
\* tags or it sets the parent
Edits(obj) ==
    {[obj EXCEPT !.tags = tags] : tags \in callers.tags}
        \cup {[obj EXCEPT !.parent = parent] : parent \in ParentChoices}

\* m = get_msg(idx); m.tags = ... or m.parent = ...; m.save(...)
SaveLoadedMsg(s) ==
    \E idx \in Ids, args \in callers.args :
        /\ MsgExists(idx)
        /\ \E obj \in Edits(get_msg(idx)) : Call(s, obj, args.noqueue, args.ctime)
        /\ UNCHANGED clock

\* the session saves the object it holds again, with tags or parent set anew
SaveHeldMsg(s) ==
    \E args \in callers.args :
        /\ cur[s] # None
        /\ \E obj \in Edits(Val(cur[s])) : Call(s, obj, args.noqueue, args.ctime)
        /\ UNCHANGED clock

\* the object the caller holds when an exception unwinds the session's stack: the
\* hosted-network branch calls save on the same object
UnwindObj(s) ==
    IF Len(stack[s]) >= 2 /\ stack[s][2].kind = "self"
    THEN stack[s][2].obj ELSE stack[s][1].obj

\* an exception leaves save: no frame of the stack handles it, no lock is released
Raise(s, error) ==
    /\ stack' = [stack EXCEPT ![s] = <<>>]
    /\ cur' = [cur EXCEPT ![s] = Some(UnwindObj(s))]
    /\ result' = [result EXCEPT ![s] = [status |-> error, value |-> None]]

\* a nested call of save (lines 188 and 217): the caller, left as the frame
\* caller, resumes when it returns; the call itself always enters the new frame
Nest(s, caller, frame) ==
    /\ stack' = [stack EXCEPT ![s] = Append([@ EXCEPT ![Len(@)] = caller], frame)]
    /\ UNCHANGED <<cur, result>>

\* the innermost call of save is the first that does not fit under the
\* recursion limit: the interpreter raises RuntimeError inside the deepest call
\* the frame makes
Overflows(s) == Len(stack[s]) > RecursionLimit

\* where a frame that overflows gets to. The deepest call of lines 143-156 is
\* the write of line 155, which pickles the message: the frame takes the lock
\* of line 147 and overflows in that write ("write"). How deep the calls of
\* lines 143-147 go (os.path.expanduser, CFG.get, DBProxy, acquire) is decided
\* outside this file; where they are the deepest the frame overflows before
\* it holds the lock ("enter")
OverflowAt(s) == IF Overflows(s) THEN {"enter", "write"} ELSE {"none"}

(***************************************************************************)
(* lines 147-156: persist the message record                               *)
(***************************************************************************)
\* lines 143-147: datapath, db_msg = DBProxy(MSGDB), db_msg.acquire()
MsgAcquire(s) ==
    /\ At(s, "msg_acquire")
    /\ \E at \in OverflowAt(s) :
        IF at = "enter"
        THEN /\ Raise(s, "RuntimeError")
             /\ UNCHANGED locks
        ELSE /\ LockFree(locks.msg)
             /\ locks' = [locks EXCEPT !.msg = Held(s)]
             /\ stack' = SetTop(s, [Top(s) EXCEPT !.pc = "msg_assign"])
             /\ UNCHANGED <<cur, result>>
    /\ UNCHANGED <<cfg, callers, clock, msgdb, tagdb, transdb, queuedb, budget,
                   assignlog, netlog>>

\* the increment of line 149 left out
NextIdxNoIncrement(keys) ==
    IF keys = {} THEN 0 ELSE SetMax({ParseInt(k) : k \in keys})

\* line 149: max([int(key) for key in db_msg.keys()] or [-1]) + 1
NextIdx(keys) ==
    (IF keys = {} THEN -1 ELSE SetMax({ParseInt(k) : k \in keys})) + 1

\* lines 148-154: a new message gets its id and its times
MsgAssign(s) ==
    /\ At(s, "msg_assign")
    /\ LET f == Top(s)
           idx == NextIdx(DbKeys(msgdb))
       IN  IF f.new
           THEN /\ stack' = SetTop(s, [f EXCEPT
                        !.pc = "msg_write",
                        !.obj = IF f.ctime # None
                                THEN [f.obj EXCEPT !.idx = Some(idx),
                                                   !.ctime = Val(f.ctime),
                                                   !.stime = f.ctime]
                                ELSE [f.obj EXCEPT !.idx = Some(idx),
                                                   !.stime = Some(clock)]])
                /\ clock' = IF f.ctime # None THEN clock ELSE clock + 1
                /\ assignlog' = Append(assignlog, idx)
           ELSE /\ stack' = SetTop(s, [f EXCEPT !.pc = "msg_write"])
                /\ UNCHANGED <<clock, assignlog>>
    /\ UNCHANGED <<cfg, callers, msgdb, tagdb, transdb, queuedb, locks, cur, result, budget, netlog>>

\* lines 155-156 without the release of line 156
MsgWriteNoRelease(s) ==
    /\ At(s, "msg_write")
    /\ LET f == Top(s) IN
        /\ msgdb' = DbSet(msgdb, MsgKey(Val(f.obj.idx)), f.obj)
        /\ stack' = SetTop(s, [f EXCEPT !.pc = "tag_acquire"])
    /\ UNCHANGED <<cfg, callers, clock, tagdb, transdb, queuedb, locks, cur, result, budget,
                   assignlog, netlog>>

\* lines 155-156: db_msg['%d' % (self.idx,)] = self; db_msg.release(). In a
\* frame that overflows the write raises RuntimeError: the record is not written
\* and line 156 is not reached, so the session keeps the lock of line 147
MsgWrite(s) ==
    /\ At(s, "msg_write")
    /\ LET f == Top(s) IN
        IF Overflows(s)
        THEN /\ Raise(s, "RuntimeError")
             /\ UNCHANGED <<msgdb, locks>>
        ELSE /\ msgdb' = DbSet(msgdb, MsgKey(Val(f.obj.idx)), f.obj)
             /\ stack' = SetTop(s, [f EXCEPT !.pc = "tag_acquire",
                                             !.done = Append(@, "msg")])
             /\ locks' = [locks EXCEPT !.msg = None]
             /\ UNCHANGED <<cur, result>>
    /\ UNCHANGED <<cfg, callers, clock, tagdb, transdb, queuedb, budget,
                   assignlog, netlog>>

(***************************************************************************)
(* lines 158-173: persist the message id in the tag table                  *)
(***************************************************************************)
\* line 160: db_tag.acquire()
TagAcquire(s) ==
    /\ At(s, "tag_acquire")
    /\ LockFree(locks.tag)
    /\ locks' = [locks EXCEPT !.tag = Held(s)]
    /\ stack' = SetTop(s, [Top(s) EXCEPT !.pc = "tag_write"])
    /\ UNCHANGED <<cfg, callers, clock, msgdb, tagdb, transdb, queuedb, cur, result, budget,
                   assignlog, netlog>>

\* the untagging branch of lines 167-170 left out
RetagAddOnly(db, tags, idx) ==
    [t \in DbKeys(db) |->
        IF t \in tags /\ idx \notin db[t] THEN db[t] \cup {idx} ELSE db[t]]

\* lines 162-170: every known tag gains or loses the id
Retag(db, tags, idx) ==
    [t \in DbKeys(db) |->
        IF t \in tags /\ idx \notin db[t] THEN db[t] \cup {idx}
        ELSE IF t \notin tags /\ idx \in db[t] THEN db[t] \ {idx}
        ELSE db[t]]

\* lines 171-172 left out
NewTagsNone(db, tags, idx) == db

\* lines 171-172: every tag of the message the table does not know gets an entry
NewTags(db, tags, idx) ==
    [t \in DbKeys(db) \cup tags |-> IF DbHas(db, t) THEN db[t] ELSE {idx}]

Reconcile(db, tags, idx) == NewTags(Retag(db, tags, idx), tags, idx)

\* lines 162-173
TagWrite(s) ==
    /\ At(s, "tag_write")
    /\ LET f == Top(s) IN
        /\ tagdb' = Reconcile(tagdb, f.obj.tags, Val(f.obj.idx))
        /\ stack' = SetTop(s, [f EXCEPT !.pc = "thread", !.done = Append(@, "tag")])
    /\ locks' = [locks EXCEPT !.tag = None]
    /\ UNCHANGED <<cfg, callers, clock, msgdb, transdb, queuedb, cur, result, budget,
                   assignlog, netlog>>

(***************************************************************************)
(* lines 175-194: persist the message as a child of its parent             *)
(***************************************************************************)
\* line 187 left out
AddChildLost(parent_msg, idx) == parent_msg

\* line 187: parent_msg.children.add(self.idx)
AddChild(parent_msg, idx) == [parent_msg EXCEPT !.children = @ \cup {idx}]

\* line 191 left out
StripParentKept(obj) == obj

\* line 191: self.parent = None
StripParent(obj) == [obj EXCEPT !.parent = None]

\* lines 178-191
Thread(s) ==
    /\ At(s, "thread")
    /\ LET f == Top(s)
           obj == f.obj
       IN  IF obj.parent # None /\ Val(obj.parent) \in obj.children
           THEN \* line 178: assert self.parent not in self.children
                Raise(s, "AssertionError")
           ELSE IF obj.parent = None
           THEN /\ stack' = SetTop(s, [f EXCEPT !.pc = "dispatch"])
                /\ UNCHANGED <<cur, result>>
           ELSE IF ~MsgExists(Val(obj.parent))
           THEN \* line 181: get_msg of an id with no record
                Raise(s, "KeyError")
           ELSE LET parent_msg == get_msg(Val(obj.parent)) IN
                IF obj.idx # parent_msg.idx
                THEN \* lines 187-188: parent_msg.save()
                     Nest(s, [f EXCEPT !.pc = "dispatch", !.done = Append(@, "child")],
                          Frame(AddChild(parent_msg, Val(obj.idx)), "parent", FALSE, None))
                ELSE \* lines 190-191: the message is its own parent
                     /\ stack' = SetTop(s, [f EXCEPT !.obj = StripParent(obj),
                                                     !.pc = "strip_acquire"])
                     /\ UNCHANGED <<cur, result>>
    /\ UNCHANGED <<cfg, callers, clock, msgdb, tagdb, transdb, queuedb, locks, budget,
                   assignlog, netlog>>

\* line 192: db_msg.acquire()
StripAcquire(s) ==
    /\ At(s, "strip_acquire")
    /\ LockFree(locks.msg)
    /\ locks' = [locks EXCEPT !.msg = Held(s)]
    /\ stack' = SetTop(s, [Top(s) EXCEPT !.pc = "strip_write"])
    /\ UNCHANGED <<cfg, callers, clock, msgdb, tagdb, transdb, queuedb, cur, result, budget,
                   assignlog, netlog>>

\* lines 193-194: db_msg['%d' % (self.idx)] = self; db_msg.release()
StripWrite(s) ==
    /\ At(s, "strip_write")
    /\ LET f == Top(s) IN
        /\ msgdb' = DbSet(msgdb, MsgKey(Val(f.obj.idx)), f.obj)
        /\ stack' = SetTop(s, [f EXCEPT !.pc = "dispatch", !.done = Append(@, "msg")])
    /\ locks' = [locks EXCEPT !.msg = None]
    /\ UNCHANGED <<cfg, callers, clock, tagdb, transdb, queuedb, cur, result, budget,
                   assignlog, netlog>>

(***************************************************************************)
(* lines 196-231: queue for network posting                                *)
(***************************************************************************)
\* the orders in which "for t in self.tags" may meet the tags of a set
Orders(S) == {o \in [1 .. Cardinality(S) -> S] : Range(o) = S}

\* the loop of lines 210-230 without its break statements
RECURSIVE RouteAll(_, _, _)
RouteAll(order, server_tags, networks) ==
    IF order = <<>> THEN <<>>
    ELSE IF Head(order) \in Range(server_tags)
         THEN <<[t |-> Head(order), kind |-> "server"]>>
                  \o RouteAll(Tail(order), server_tags, networks)
    ELSE IF Head(order) \in Range(networks)
         THEN <<[t |-> Head(order), kind |-> "network"]>>
                  \o RouteAll(Tail(order), server_tags, networks)
    ELSE RouteAll(Tail(order), server_tags, networks)

\* the loop of lines 210-230 without the branch of line 222
RECURSIVE RouteHostedOnly(_, _, _)
RouteHostedOnly(order, server_tags, networks) ==
    IF order = <<>> THEN <<>>
    ELSE IF Head(order) \in Range(server_tags)
         THEN <<[t |-> Head(order), kind |-> "server"]>>
    ELSE RouteHostedOnly(Tail(order), server_tags, networks)

\* lines 210-230: the routing the loop over the tags performs; it ends at the
\* first tag that is a server tag or a network tag
RECURSIVE Route(_, _, _)
Route(order, server_tags, networks) ==
    IF order = <<>> THEN <<>>
    ELSE IF Head(order) \in Range(server_tags)
         THEN <<[t |-> Head(order), kind |-> "server"]>>
    ELSE IF Head(order) \in Range(networks)
         THEN <<[t |-> Head(order), kind |-> "network"]>>
    ELSE Route(Tail(order), server_tags, networks)

\* line 197 without "and new"
DispatchesAlways(noqueue, new) == ~noqueue

\* line 197: while True and not noqueue and new
Dispatches(noqueue, new) == ~noqueue /\ new

\* lines 205-208
ServerTags(c) == IF c.server_tags # None THEN ParseTagList(Val(c.server_tags)) ELSE <<>>

\* lines 197-211
Dispatch(s) ==
    /\ At(s, "dispatch")
    /\ LET f == [Top(s) EXCEPT !.done = Append(@, "dispatch")] IN
        IF ~Dispatches(f.noqueue, f.new)
        THEN stack' = SetTop(s, [f EXCEPT !.pc = "ret"])
        ELSE IF cfg.network_tags = None
        THEN \* lines 199-200
             stack' = SetTop(s, [f EXCEPT !.pc = "ret"])
        ELSE LET networks == ParseTagList(Val(cfg.network_tags)) IN
             IF Len(networks) = 0
             THEN \* lines 203-204
                  stack' = SetTop(s, [f EXCEPT !.pc = "ret"])
             ELSE \E order \in Orders(f.obj.tags) :
                    LET pending == Route(order, ServerTags(cfg), networks) IN
                    stack' = SetTop(s, [f EXCEPT
                                !.pending = pending,
                                !.pc = IF pending = <<>> THEN "ret" ELSE "net_acquire"])
    /\ UNCHANGED <<cfg, callers, clock, msgdb, tagdb, transdb, queuedb, locks, cur, result, budget,
                   assignlog, netlog>>

\* lines 213-215: transdb.acquire(); the configuration names a transit table
\* for every hosted network
TransAcquire(s) ==
    /\ At(s, "net_acquire")
    /\ LET r == Head(Top(s).pending) IN
        /\ r.kind = "server"
        /\ LockFree(locks.trans[r.t])
        /\ locks' = [locks EXCEPT !.trans[r.t] = Held(s)]
    /\ stack' = SetTop(s, [Top(s) EXCEPT !.pc = "origin"])
    /\ UNCHANGED <<cfg, callers, clock, msgdb, tagdb, transdb, queuedb, cur, result, budget,
                   assignlog, netlog>>

\* the two joined texts of line 216 swapped
AddOriginFront(obj, origin_line) == [obj EXCEPT !.body = origin_line \o @]

\* line 216: self.body = u''.join((self.body, origin_line))
AddOrigin(obj, origin_line) == [obj EXCEPT !.body = @ \o origin_line]

\* lines 216-217: the origin line is added and the message saved again
OriginSave(s) ==
    /\ At(s, "origin")
    /\ LET obj == AddOrigin(Top(s).obj, format_origin_line(cfg)) IN
        Nest(s, [Top(s) EXCEPT !.obj = obj, !.pc = "trans_write"],
             Frame(obj, "self", FALSE, None))
    /\ UNCHANGED <<cfg, callers, clock, msgdb, tagdb, transdb, queuedb, locks, budget,
                   assignlog, netlog>>

\* lines 221 and 230 without the break of line 231 after them: the while
\* loop of line 197 runs again
AfterRouteAgain(f) ==
    [f EXCEPT !.pending = <<>>, !.pc = "dispatch", !.done = Append(@, "net")]

\* what follows a routing action: lines 221 and 230 break out of the loop
AfterRoute(f) ==
    [f EXCEPT !.pending = Tail(@),
              !.pc = IF Tail(f.pending) = <<>> THEN "ret" ELSE "net_acquire",
              !.done = Append(@, "net")]

\* lines 218-219: transdb[self.idx] = self.idx; transdb.release()
TransWrite(s) ==
    /\ At(s, "trans_write")
    /\ LET f == Top(s)
           r == Head(f.pending)
           idx == Val(f.obj.idx)
       IN  /\ transdb' = [transdb EXCEPT ![r.t] = DbSet(@, idx, idx)]
           /\ locks' = [locks EXCEPT !.trans[r.t] = None]
           /\ netlog' = Append(netlog, [idx |-> idx, table |-> "trans", net |-> r.t])
           /\ stack' = SetTop(s, AfterRoute(f))
    /\ UNCHANGED <<cfg, callers, clock, msgdb, tagdb, queuedb, cur, result, budget, assignlog>>

\* lines 224-226: queuedb.acquire(); the configuration names a queue table for
\* every network
QueueAcquire(s) ==
    /\ At(s, "net_acquire")
    /\ LET r == Head(Top(s).pending) IN
        /\ r.kind = "network"
        /\ LockFree(locks.queue[r.t])
        /\ locks' = [locks EXCEPT !.queue[r.t] = Held(s)]
    /\ stack' = SetTop(s, [Top(s) EXCEPT !.pc = "queue_write"])
    /\ UNCHANGED <<cfg, callers, clock, msgdb, tagdb, transdb, queuedb, cur, result, budget,
                   assignlog, netlog>>

\* lines 227-228: queuedb[self.idx] = t; queuedb.release()
QueueWrite(s) ==
    /\ At(s, "queue_write")
    /\ LET f == Top(s)
           r == Head(f.pending)
           idx == Val(f.obj.idx)
       IN  /\ queuedb' = [queuedb EXCEPT ![r.t] = DbSet(@, idx, r.t)]
           /\ locks' = [locks EXCEPT !.queue[r.t] = None]
           /\ netlog' = Append(netlog, [idx |-> idx, table |-> "queue", net |-> r.t])
           /\ stack' = SetTop(s, AfterRoute(f))
    /\ UNCHANGED <<cfg, callers, clock, msgdb, tagdb, transdb, cur, result, budget, assignlog>>

\* the value of the call: save has no return statement
SaveValue(obj) == None

\* lines 233-237: save logs and returns
Return(s) ==
    /\ At(s, "ret")
    /\ LET f == Top(s)
           n == Len(stack[s])
       IN  IF n = 1
           THEN /\ stack' = [stack EXCEPT ![s] = <<>>]
                /\ cur' = [cur EXCEPT ![s] = Some(f.obj)]
                /\ result' = [result EXCEPT ![s] =
                                [status |-> "returned", value |-> SaveValue(f.obj)]]
           ELSE /\ stack' = [stack EXCEPT ![s] =
                    [i \in 1 .. (n - 1) |->
                        IF i = n - 1 /\ f.kind = "self"
                        THEN [stack[s][i] EXCEPT !.obj = f.obj, !.done = @ \o f.done]
                        ELSE stack[s][i]]]
                /\ UNCHANGED <<cur, result>>
    /\ UNCHANGED <<cfg, callers, clock, msgdb, tagdb, transdb, queuedb, locks, budget,
                   assignlog, netlog>>

(***************************************************************************)
(* Specifications                                                          *)
(***************************************************************************)
SessionNext(s) ==
    \/ SaveNewMsg(s)
    \/ SaveLoadedMsg(s)
    \/ SaveHeldMsg(s)
    \/ MsgAcquire(s)
    \/ MsgAssign(s)
    \/ MsgWrite(s)
    \/ TagAcquire(s)
    \/ TagWrite(s)
    \/ Thread(s)
    \/ StripAcquire(s)
    \/ StripWrite(s)
    \/ Dispatch(s)
    \/ TransAcquire(s)
    \/ OriginSave(s)
    \/ TransWrite(s)
    \/ QueueAcquire(s)
    \/ QueueWrite(s)
    \/ Return(s)

AllIdle == \A q \in Sessions : ~Active(q)

Next == \E s \in Sessions : SessionNext(s)

\* sessions save concurrently, with the default arguments
Init == InitWith(Configs, MaxMsgs, TagSets, {DefaultArgs}, TRUE, MaxSaves)
Spec == Init /\ [][Next]_vars

\* calls of save are made one after another, with any arguments: a call starts
\* only while no session is inside save
InitSeq == InitWith(Configs, MaxMsgs, TagSets, SaveArgs, FALSE, MaxSeqSaves)
SpecSeq == InitSeq /\ [][Next]_vars

\* a board that hosts local and is a member of fidonet, where every message is
\* posted to both and threads grow three messages deep; calls are made one
\* after another
InitThread ==
    InitWith({CfgHub}, MaxThreadMsgs, {{local, fidonet}}, {DefaultArgs}, FALSE, MaxThreadSaves)
SpecThread == InitThread /\ [][Next]_vars

\* the same board with two messages, whose sessions save concurrently
InitHub ==
    InitWith({CfgHub}, MaxMsgs, {{local}, {fidonet}}, {DefaultArgs}, TRUE, MaxHubSaves)
SpecHub == InitHub /\ [][Next]_vars

(***************************************************************************)
(* Properties                                                              *)
(***************************************************************************)
\* a call made by a caller has run to its end and is about to return
Returning(s) == At(s, "ret") /\ Len(stack[s]) = 1
\* the call is the first save of its message: the message had no id
FirstSave(f) == f.entry.idx = None
Errors == {"AssertionError", "KeyError", "RuntimeError"}
Last(q) == q[Len(q)]
\* the writes to transit and queue tables made for message idx
NetWrites(idx) == SelectSeq(netlog, LAMBDA e : e.idx = idx)
\* the tables that hold an entry for message idx
InTrans(idx) == {t \in Tags : DbHas(transdb[t], idx)}
InQueue(idx) == {t \in Tags : DbHas(queuedb[t], idx)}

\* C1: whatever the interleaving of concurrent saves, every id minted is
\* strictly greater than every id minted before it under the message-table
\* lock, so no two messages get the same id.
C1_IdsUniqueIncreasing ==
    \A i, j \in DOMAIN assignlog : i < j => assignlog[i] < assignlog[j]

\* two sessions are inside save at once, each with a message that has just
\* been given its id
C1_Witness ==
    /\ Len(assignlog) = 2
    /\ \A s \in Sessions :
        Active(s) /\ FirstSave(stack[s][1]) /\ stack[s][1].obj.idx # None

\* the id of m is in the entry of every tag of m and of no other known tag
TagIndexAgrees(m) ==
    /\ \A t \in m.tags : DbHas(tagdb, t) /\ Val(m.idx) \in DbGet(tagdb, t)
    /\ \A t \in DbKeys(tagdb) \ m.tags : Val(m.idx) \notin DbGet(tagdb, t)

\* C2: when save of m returns, m's id is in the tag table's entry of every
\* tag of m and in the entry of no other tag the table knows; an entry the
\* save creates for a tag the table did not know is exactly {m.id}.
C2_TagIndexMatchesTags ==
    [][\A s \in Sessions :
        /\ Returning(s)' => TagIndexAgrees(Top(s).obj)'
        /\ \A t \in DbKeys(tagdb') \ DbKeys(tagdb) :
            At(s, "tag_write") =>
                /\ t \in Top(s).obj.tags
                /\ DbGet(tagdb', t) = {Val(Top(s).obj.idx)}]_vars

\* a saved message is saved again with tag local taken off, and the entry of
\* local, which held only this message, is left empty
C2_Witness ==
    \E s \in Sessions :
        /\ Returning(s)
        /\ ~FirstSave(Top(s))
        /\ local \notin Top(s).obj.tags
        /\ fidonet \in Top(s).obj.tags
        /\ DbHas(tagdb, local) /\ DbGet(tagdb, local) = {}
        /\ DbHas(tagdb, fidonet) /\ DbGet(tagdb, fidonet) = {Val(Top(s).obj.idx)}

\* C3: when save of a message whose parent is another, existing message
\* returns, the parent's persisted record has the message among its children.
C3_ChildLinked ==
    \A s \in Sessions :
        (Returning(s) /\ Top(s).entry.parent # None
                      /\ Top(s).entry.parent # Top(s).obj.idx) =>
            LET m == Top(s).obj IN
            /\ MsgExists(Val(m.parent))
            /\ Val(m.idx) \in get_msg(Val(m.parent)).children

\* a reply to message 0 has been saved
C3_Witness ==
    \E s \in Sessions :
        /\ Returning(s)
        /\ Top(s).obj.idx = Some(1)
        /\ Top(s).entry.parent = Some(0)
        /\ 1 \in get_msg(0).children

\* the top-level call of s saves a message that names itself as its parent
SelfParentCall(s) ==
    /\ Active(s)
    /\ stack[s][1].obj.idx # None
    /\ stack[s][1].entry.parent = stack[s][1].obj.idx

\* C4: a save of a message whose parent is its own id raises nothing, and when
\* it returns the persisted record has no parent and is not its own child.
C4_SelfParentStripped ==
    [][\A s \in Sessions :
        SelfParentCall(s) =>
            /\ result'[s].status \notin Errors
            /\ (~Active(s))' =>
                LET idx == Val(stack[s][1].obj.idx) IN
                /\ result'[s].status = "returned"
                /\ DbHas(msgdb', MsgKey(idx))
                /\ DbGet(msgdb', MsgKey(idx)).parent = None
                /\ idx \notin DbGet(msgdb', MsgKey(idx)).children]_vars

\* a save of a message that named itself as parent is about to return
C4_Witness ==
    \E s \in Sessions :
        /\ Returning(s)
        /\ SelfParentCall(s)
        /\ Top(s).obj.parent = None

\* what the caller set on the message before the call was persisted as is
RoundTrip(entry, rec) ==
    /\ rec.recipient = entry.recipient
    /\ rec.subject = entry.subject
    /\ rec.body = entry.body
    /\ rec.tags = entry.tags
    /\ rec.parent = entry.parent

\* the call of s wrote an entry for its message to the transit table of a
\* hosted network
RoutedToHost(f) ==
    /\ FirstSave(f) /\ ~f.noqueue
    /\ \E i \in DOMAIN netlog : netlog[i].idx = Val(f.obj.idx) /\ netlog[i].table = "trans"

\* C5 as claimed: save returns the id of the message, and get_msg of that id
\* gives back recipient, subject, body, tags and parent as the caller set them.
C5_RoundTripAsClaimed ==
    [][\A s \in Sessions :
        (Returning(s) /\ (~Active(s))') =>
            /\ result'[s].value = Top(s).obj.idx
            /\ DbHas(msgdb', MsgKey(Val(Top(s).obj.idx)))
            /\ RoundTrip(Top(s).entry, DbGet(msgdb', MsgKey(Val(Top(s).obj.idx))))]_vars

\* C5 as amended: save returns None and leaves the id in the message's idx;
\* get_msg of that id gives back recipient, subject and tags as the caller set
\* them, the parent as set unless it was the message's own id (then None), and
\* the body as set, followed by the origin line when this save routed the
\* message to a hosted network.
C5_RoundTrip ==
    [][\A s \in Sessions :
        (Returning(s) /\ (~Active(s))') =>
            LET f == Top(s)
                key == MsgKey(Val(f.obj.idx))
                rec == DbGet(msgdb', key)
            IN  /\ result'[s].value = None
                /\ cur'[s] = Some(f.obj)
                /\ f.obj.idx # None
                /\ DbHas(msgdb', key)
                /\ rec.idx = f.obj.idx
                /\ rec.recipient = f.entry.recipient
                /\ rec.subject = f.entry.subject
                /\ rec.tags = f.entry.tags
                /\ rec.parent = IF f.entry.parent = f.obj.idx THEN None
                                ELSE f.entry.parent
                /\ rec.body = IF RoutedToHost(f)
                              THEN f.entry.body \o OriginRule \o
                                   (IF cfg.origin_line = None THEN SentFrom \o cfg.bbsname
                                    ELSE Val(cfg.origin_line))
                              ELSE f.entry.body]_vars

\* a save has returned that stripped the parent, and one that added the origin line
C5_Witness ==
    \E s, q \in Sessions :
        /\ result[s].status = "returned" /\ result[q].status = "returned"
        /\ Val(cur[s]).tags = {local, fidonet}
        /\ Val(cur[s]).body # hello
        /\ Val(cur[q]).idx = Some(1)
        /\ MsgExists(1) /\ get_msg(1).parent = None
        /\ AllIdle

\* C6: while no save is between minting an id and writing the record,
\* list_msgs() and list_msgs([]) are the set of all ids minted so far, which is
\* {0, ..., n-1} for n minted ids.
C6_ListIsAllIds ==
    (\A s \in Sessions : ~At(s, "msg_write")) =>
        /\ list_msgs(None) = Range(assignlog)
        /\ list_msgs(Some(<<>>)) = Range(assignlog)
        /\ Range(assignlog) = 0 .. (Len(assignlog) - 1)

\* two messages have been saved and list_msgs() is {0, 1}
C6_Witness ==
    /\ AllIdle
    /\ Len(assignlog) = 2
    /\ list_msgs(None) = {0, 1}

\* the tag lists list_msgs is asked for: up to MaxTagList tags, known or not
MaxTagList == 2
AskedTags == Tags \cup {public}
TagLists == UNION {[1 .. n -> AskedTags] : n \in 1 .. MaxTagList}

\* C7: list_msgs of a non-empty list of tags is the union of the entries of
\* the listed tags that have one; a tag with no entry adds nothing.
C7_ListByTagsIsUnion ==
    \A tl \in TagLists :
        list_msgs(Some(tl)) =
            UNION {DbGet(tagdb, t) : t \in Range(tl) \cap DbKeys(tagdb)}

\* local has members, public is unknown: the list of both is the entry of
\* local, the list of public alone is empty
C7_Witness ==
    /\ DbHas(tagdb, local) /\ DbGet(tagdb, local) = {0, 1}
    /\ DbHas(tagdb, fidonet) /\ DbGet(tagdb, fidonet) = {1}
    /\ ~DbHas(tagdb, public)
    /\ list_msgs(Some(<<public, local>>)) = {0, 1}
    /\ list_msgs(Some(<<fidonet>>)) = {1}
    /\ list_msgs(Some(<<public>>)) = {}

\* C8: a write to a transit or queue table is made only by the first save of
\* a message, called without noqueue, by that call itself and not by a save it
\* calls, for its own message, and only when no write was made for that
\* message before: later saves of the message dispatch nothing.
C8_DispatchOnlyOnFirstSave ==
    [][(netlog' # netlog \/ transdb' # transdb \/ queuedb' # queuedb) =>
        \E s \in Sessions :
            /\ Active(s)
            /\ Top(s).kind = "call"
            /\ FirstSave(Top(s))
            /\ ~Top(s).noqueue
            /\ Len(netlog') = Len(netlog) + 1
            /\ SubSeq(netlog', 1, Len(netlog)) = netlog
            /\ Last(netlog').idx = Val(Top(s).obj.idx)
            /\ NetWrites(Val(Top(s).obj.idx)) = <<>>]_vars

\* a message that was queued for fidonet at its first save is saved again by a
\* caller, without noqueue, and that save reaches its end with no second write
C8_Witness ==
    \E s \in Sessions :
        /\ Returning(s)
        /\ ~FirstSave(Top(s))
        /\ ~Top(s).noqueue
        /\ fidonet \in Top(s).obj.tags
        /\ cfg = CfgMember
        /\ Len(NetWrites(Val(Top(s).obj.idx))) = 1
        /\ Len(netlog) = 1

\* the tags of a message that name a hosted network or a network
HostedTags == Range(ServerTags(cfg))
MemberTags == IF cfg.network_tags = None THEN {} ELSE Range(ParseTagList(Val(cfg.network_tags)))
Qualifying(tags) == {t \in tags : t \in HostedTags \/ t \in MemberTags}

\* one new save, dispatch not suppressed, has made exactly one routing action
\* if a tag of the message qualifies, and none otherwise
OneRoutingAction(f) ==
    LET idx == Val(f.obj.idx)
        writes == NetWrites(idx)
    IN  IF Qualifying(f.obj.tags) # {}
        THEN /\ Len(writes) = 1
             /\ writes[1].net \in Qualifying(f.obj.tags)
             /\ writes[1].table = IF writes[1].net \in HostedTags THEN "trans" ELSE "queue"
             /\ InTrans(idx) = IF writes[1].table = "trans" THEN {writes[1].net} ELSE {}
             /\ InQueue(idx) = IF writes[1].table = "queue" THEN {writes[1].net} ELSE {}
        ELSE /\ writes = <<>>
             /\ InTrans(idx) = {}
             /\ InQueue(idx) = {}
             /\ f.obj.body = f.entry.body
             /\ get_msg(idx).body = f.entry.body

\* C9 as claimed: a new save whose message has a server tag or a network tag
\* writes exactly one entry, to the table of one such tag; otherwise it writes
\* none and leaves the body as it was.
C9_OneRoutingAsClaimed ==
    \A s \in Sessions :
        (Returning(s) /\ FirstSave(Top(s)) /\ ~Top(s).noqueue) => OneRoutingAction(Top(s))

\* C9 as amended: the same, on a board whose configuration has the
\* network_tags option.
C9_OneRouting ==
    \A s \in Sessions :
        (Returning(s) /\ FirstSave(Top(s)) /\ ~Top(s).noqueue /\ cfg.network_tags # None)
            => OneRoutingAction(Top(s))

\* a new message tagged local and fidonet, on a hub of local that is a member
\* of fidonet, has been routed once
C9_Witness ==
    \E s \in Sessions :
        /\ Returning(s) /\ FirstSave(Top(s)) /\ ~Top(s).noqueue
        /\ cfg = CfgHub
        /\ Top(s).obj.tags = {local, fidonet}
        /\ Len(netlog) = 1

\* the origin line of a board named x84 with no origin_line option
SentFromX84 ==
    <<"\r", "\n", "-", "-", "-", "\r", "\n",
      "S", "e", "n", "t", " ", "f", "r", "o", "m", " ", "x", "8", "4">>

\* the origin line of a board whose origin_line option is "bye"
RuleBye == <<"\r", "\n", "-", "-", "-", "\r", "\n", "b", "y", "e">>

\* a new save, dispatch not suppressed, of a message tagged {local} has left the
\* body with the origin line added once and the id in local's transit table
HostedDelivery(f) ==
    LET idx == Val(f.obj.idx) IN
    /\ get_msg(idx).body =
            f.entry.body \o (IF cfg.origin_line = None THEN SentFromX84 ELSE RuleBye)
    /\ DbHas(transdb[local], idx)
    /\ DbGet(transdb[local], idx) = idx

LocalIsServerTag == cfg.server_tags # None /\ ParseTagList(Val(cfg.server_tags)) = <<local>>

\* C10 as claimed: with server tags ["local"], a new save of a message tagged
\* {local} ends with the origin line added once to the persisted body and with
\* id -> id in local's transit table.
C10_HostedAsClaimed ==
    \A s \in Sessions :
        (Returning(s) /\ FirstSave(Top(s)) /\ ~Top(s).noqueue
            /\ LocalIsServerTag /\ Top(s).obj.tags = {local})
            => HostedDelivery(Top(s))

\* C10 as amended: the same, when the configuration also has the network_tags
\* option.
C10_Hosted ==
    \A s \in Sessions :
        (Returning(s) /\ FirstSave(Top(s)) /\ ~Top(s).noqueue
            /\ LocalIsServerTag /\ cfg.network_tags # None /\ Top(s).obj.tags = {local})
            => HostedDelivery(Top(s))

\* a new message tagged {local}, a reply, has been delivered to the hosted network
C10_Witness ==
    \E s \in Sessions :
        /\ Returning(s) /\ FirstSave(Top(s)) /\ ~Top(s).noqueue
        /\ LocalIsServerTag /\ cfg.network_tags # None
        /\ Top(s).obj.tags = {local}
        /\ Top(s).obj.parent = Some(0)
        /\ Top(s).obj.idx = Some(1)
        /\ DbHas(transdb[local], 1)

\* the configuration names fidonet as its only network and hosts no network
FidonetMember ==
    /\ cfg.network_tags # None
    /\ ParseTagList(Val(cfg.network_tags)) = <<fidonet>>
    /\ cfg.server_tags = None

\* C11: on a board whose network tags are ["fidonet"] and that has no server
\* tags, when a new save, dispatch not suppressed, of a message tagged
\* {fidonet} returns, fidonet's queue table holds id -> "fidonet", the body in
\* memory and the persisted body are the body the caller set, and no transit
\* table holds or was written an entry for the message.
C11_QueuedForFidonet ==
    \A s \in Sessions :
        (Returning(s) /\ FirstSave(Top(s)) /\ ~Top(s).noqueue
            /\ FidonetMember /\ Top(s).entry.tags = {fidonet}) =>
            LET f == Top(s)
                idx == Val(f.obj.idx)
            IN  /\ DbHas(queuedb[fidonet], idx)
                /\ DbGet(queuedb[fidonet], idx) = fidonet
                /\ InQueue(idx) = {fidonet}
                /\ f.obj.body = f.entry.body
                /\ get_msg(idx).body = f.entry.body
                /\ InTrans(idx) = {}
                /\ \A t \in Tags : DbKeys(transdb[t]) = {}
                /\ NetWrites(idx) = <<[idx |-> idx, table |-> "queue", net |-> fidonet]>>

\* the second message of the board, a reply tagged {fidonet}, has been queued
C11_Witness ==
    \E s \in Sessions :
        /\ Returning(s) /\ FirstSave(Top(s)) /\ ~Top(s).noqueue
        /\ FidonetMember
        /\ Top(s).entry.tags = {fidonet}
        /\ Top(s).obj.idx = Some(1)
        /\ Top(s).obj.parent = Some(0)
        /\ DbHas(queuedb[fidonet], 1)
        /\ Top(s).obj.body = hello

\* no call of save has ended with an exception
NoneRaised == \A s \in Sessions : result[s].status \notin Errors

\* C12: whenever no session is inside save (and every save made so far has
\* returned), the tag table agrees with the persisted records: the id of every
\* persisted message is in the entry of every tag of its record and in the
\* entry of no other tag the table knows.
C12_TagIndexAgreesAtRest ==
    (AllIdle /\ NoneRaised) => \A k \in DbKeys(msgdb) : TagIndexAgrees(DbGet(msgdb, k))

\* every persisted reply to an older message (a message can be given the id of
\* an older one as its parent only when that one is persisted) is among the
\* persisted children of its parent
ChildrenComplete ==
    \A k \in DbKeys(msgdb) :
        LET m == DbGet(msgdb, k) IN
        (m.parent # None /\ Val(m.parent) < Val(m.idx)) =>
            /\ MsgExists(Val(m.parent))
            /\ Val(m.idx) \in get_msg(Val(m.parent)).children

\* C13: once all saves have returned, every persisted message whose parent is
\* p has its id in the persisted children of p, whatever the interleaving of
\* the saves was.
C13_NoChildLinkLost ==
    (AllIdle /\ NoneRaised) => ChildrenComplete

\* the ids of the messages whose save is active in session s, outermost first;
\* the call the hosted-network branch makes on the same message is not counted
Visits(s) ==
    LET frames == SelectSeq(stack[s], LAMBDA f : f.kind # "self" /\ f.obj.idx # None)
    IN  [i \in DOMAIN frames |-> Val(frames[i].obj.idx)]

\* C14: the chain of saves the thread step starts visits no message twice,
\* and no call of save runs into the interpreter's recursion limit: a cycle of
\* parents is reported before any message is saved a second time.
C14_ChainVisitsOnce ==
    \A s \in Sessions :
        /\ \A i, j \in DOMAIN Visits(s) : i < j => Visits(s)[i] # Visits(s)[j]
        /\ result[s].status # "RuntimeError"

\* session s holds the lock of the message table, of the tag table
HoldsMsg(s) == locks.msg = Held(s)
HoldsTag(s) == locks.tag = Held(s)

\* the dispatch step (lines 196-231) of the i-th call on the stack of s has
\* begun and has not ended: the call is at one of its statements, or it waits
\* for the save of line 217 to return
InDispatch(s, i) ==
    LET f == stack[s][i] IN
    IF i = Len(stack[s])
    THEN f.pc \in {"dispatch", "net_acquire", "origin", "trans_write", "queue_write"}
    ELSE f.pc = "trans_write"

\* the dispatch step of the i-th call on the stack of s executes a statement of
\* its own: it is not inside the save of line 217
DispatchRuns(s, i) == i = Len(stack[s]) /\ InDispatch(s, i)

\* C15 as claimed: no session holds the message-table lock and the tag-table
\* lock together, and from the start of a save's dispatch step to its end the
\* session holds neither.
C15_LocksAsClaimed ==
    \A s \in Sessions :
        /\ ~(HoldsMsg(s) /\ HoldsTag(s))
        /\ \A i \in DOMAIN stack[s] : InDispatch(s, i) => ~HoldsMsg(s) /\ ~HoldsTag(s)

\* C15 as amended: no session holds the two locks together; a save's dispatch
\* step starts with neither lock held and holds neither while it executes its
\* own statements; the session holds one of them during dispatch only inside
\* the save that the hosted-network branch calls, which is then the innermost
\* call or one it made.
C15_Locks ==
    \A s \in Sessions :
        /\ ~(HoldsMsg(s) /\ HoldsTag(s))
        /\ \A i \in DOMAIN stack[s] :
            /\ DispatchRuns(s, i) => ~HoldsMsg(s) /\ ~HoldsTag(s)
            /\ (InDispatch(s, i) /\ (HoldsMsg(s) \/ HoldsTag(s))) =>
                /\ stack[s][i].pending # <<>>
                /\ Head(stack[s][i].pending).kind = "server"
                /\ locks.trans[Head(stack[s][i].pending).t] = Held(s)
                /\ stack[s][i + 1].kind = "self"
        /\ (HoldsMsg(s) \/ HoldsTag(s)) =>
            Top(s).pc \in {"msg_assign", "msg_write", "tag_write", "strip_write"}

\* two sessions have passed their locks at the same time: one holds the tag
\* lock in the save its hosted-network branch called, while the dispatch step
\* of its outer save waits; the other holds the message lock
C15_Witness ==
    \E s, q \in Sessions :
        /\ s # q
        /\ Len(stack[s]) = 2 /\ InDispatch(s, 1) /\ Top(s).kind = "self"
        /\ HoldsTag(s)
        /\ HoldsMsg(q)

IsPrefix(p, q) == Len(p) <= Len(q) /\ SubSeq(q, 1, Len(p)) = p

\* the effects so far of the i-th call on the stack of s, those of the save it
\* has called on its own message (line 217) included
Effects(s, i) ==
    IF i < Len(stack[s]) /\ stack[s][i + 1].kind = "self"
    THEN stack[s][i].done \o stack[s][i + 1].done
    ELSE stack[s][i].done

\* the effects of one call of save as claimed: persist, reconcile, update the
\* parent's children if there is a parent, dispatch, write one transit or queue
\* entry if the message is routed
OrderAsClaimed ==
    {<<"msg", "tag">> \o t \o <<"dispatch">> \o n :
        t \in {<<>>, <<"child">>}, n \in {<<>>, <<"net">>}}

\* the effects of a call that does not dispatch to a hosted network: a message
\* that names itself as parent is written a second time in the thread step
OrderPlain ==
    {<<"msg", "tag">> \o t \o <<"dispatch">> :
        t \in {<<>>, <<"child">>, <<"msg">>}}

\* the effects of one call of save: in the hosted-network branch the dispatch
\* step runs persist, reconcile and the thread step again before its write
OrderOfSave ==
    OrderPlain
        \cup {o \o <<"net">> : o \in OrderPlain}
        \cup {o \o again \o <<"net">> :
                o \in OrderPlain,
                again \in {<<"msg", "tag">> \o t \o <<"dispatch">> : t \in {<<>>, <<"child">>}}}

\* every call on a stack has had, so far, the first effects of one of orders,
\* and all of them when it is about to return
Ordered(orders) ==
    \A s \in Sessions : \A i \in DOMAIN stack[s] :
        /\ \E o \in orders : IsPrefix(Effects(s, i), o)
        /\ stack[s][i].pc = "ret" => stack[s][i].done \in orders

\* C16 as claimed: the effects of one call of save are, in this order and once
\* each, the message-table write, the tag reconciliation, the update of the
\* parent's children and the dispatch write; no message-table or tag-table
\* write follows the start of the dispatch step.
C16_OrderAsClaimed == Ordered(OrderAsClaimed)

\* C16 as amended: the steps start in that order, once each, but the thread
\* step writes the message table a second time when the message names itself as
\* parent, and in the hosted-network branch the dispatch step saves the message
\* again (message-table write, tag reconciliation, thread step) before it
\* writes the transit entry; a message-table or tag-table write after the start
\* of dispatch happens only there, under the transit lock.
C16_Order ==
    /\ Ordered(OrderOfSave)
    /\ \A s \in Sessions : \A i \in DOMAIN stack[s] :
        LET e == Effects(s, i) IN
        \A k \in DOMAIN e :
            (e[k] \in {"msg", "tag"} /\ \E j \in 1 .. (k - 1) : e[j] = "dispatch") =>
                LET f == stack[s][i] IN
                IF f.pc = "trans_write"
                THEN /\ Head(f.pending).kind = "server"
                     /\ locks.trans[Head(f.pending).t] = Held(s)
                ELSE /\ f.pc = "ret"
                     /\ Last(f.done) = "net"
                     /\ InTrans(Val(f.obj.idx)) # {}

\* a new reply tagged local has been delivered to the hosted network: its save
\* has written the record, the tag table and the parent twice
C16_Witness ==
    \E s \in Sessions :
        /\ Returning(s)
        /\ Top(s).done = <<"msg", "tag", "child", "dispatch",
                           "msg", "tag", "child", "dispatch", "net">>

\* no step removes a key of the tag table (the first half of C17, which holds)
TagKeysOnlyGrow == [][DbKeys(tagdb) \subseteq DbKeys(tagdb')]_vars

\* C17: the key set of the tag table only grows, so list_tags() returns every
\* tag that was in the tag set of a message at one of its saves: when a save
\* returns, list_tags() returns a list that holds every tag of the saved
\* message and every other key of the tag table.
C17_ListTagsReturnsEveryTag ==
    \A s \in Sessions :
        (Returning(s) /\ Top(s).obj.tags # {}) =>
            /\ list_tags.status = "returned"
            /\ Top(s).obj.tags \subseteq Range(list_tags.value)
            /\ DbKeys(tagdb) \subseteq Range(list_tags.value)

\* session s takes the step of lines 148-154
Assigns(s) == At(s, "msg_assign") /\ stack'[s] # stack[s]

\* the times of a message are those of another copy of it
SameTimes(a, b) == a.ctime = b.ctime /\ a.stime = b.stime

\* what every save does to the times, but for a first save without a ctime
\* argument: a message has no save time until its first save and has one ever
\* after; a first save with a ctime argument sets both times to it; any other
\* save leaves both times, in memory and in the record, as they were
TimesKept(s) ==
    /\ Active(s) =>
        /\ FirstSave(Top(s)) <=> Top(s).entry.stime = None
        /\ FirstSave(Top(s)) <=> Top(s).new
    /\ Assigns(s) =>
        LET f == Top(s)
            g == Top(s)'
        IN  IF ~f.new THEN SameTimes(g.obj, f.obj)
            ELSE f.ctime # None => (g.obj.ctime = Val(f.ctime) /\ g.obj.stime = f.ctime)
    /\ Returning(s)' =>
        LET g == Top(s)' IN
        /\ g.obj.stime # None
        /\ SameTimes(DbGet(msgdb', MsgKey(Val(g.obj.idx))), g.obj)
        /\ ~FirstSave(g) => SameTimes(g.obj, g.entry)

\* C18 as claimed: saveTime is absent before the first save; the first save
\* sets creationTime and saveTime to the ctime argument if one is given and
\* otherwise sets both to the time of that save; no later save changes either.
C18_TimesAsClaimed ==
    [][\A s \in Sessions :
        /\ TimesKept(s)
        /\ (Assigns(s) /\ Top(s).new /\ Top(s).ctime = None) =>
            /\ Top(s)'.obj.stime = Some(clock)
            /\ Top(s)'.obj.ctime = clock]_vars

\* C18 as amended: the same, except that a first save without a ctime argument
\* sets only saveTime to the time of that save; creationTime stays the time at
\* which the Msg object was constructed, which is earlier.
C18_Times ==
    [][\A s \in Sessions :
        /\ TimesKept(s)
        /\ (Assigns(s) /\ Top(s).new /\ Top(s).ctime = None) =>
            /\ Top(s)'.obj.stime = Some(clock)
            /\ Top(s)'.obj.ctime = Top(s).obj.ctime
            /\ Top(s)'.obj.ctime < clock]_vars

\* a message first saved without a ctime argument is saved again with one, and
\* that save is about to return with the times of the first save
C18_Witness ==
    \E s \in Sessions :
        /\ Returning(s)
        /\ ~FirstSave(Top(s))
        /\ Top(s).ctime = Some(0)
        /\ Top(s).obj.ctime = 1
        /\ Top(s).obj.stime = Some(2)
        /\ SameTimes(get_msg(Val(Top(s).obj.idx)), Top(s).obj)

\* the tables whose lock session s holds
LocksHeldBy(s) ==
    (IF locks.msg = Held(s) THEN {<<"msg">>} ELSE {})
        \cup (IF locks.tag = Held(s) THEN {<<"tag">>} ELSE {})
        \cup {<<"trans", t>> : t \in {u \in Tags : locks.trans[u] = Held(s)}}
        \cup {<<"queue", t>> : t \in {u \in Tags : locks.queue[u] = Held(s)}}

\* C19: no session is left waiting for ever for a lock: a session that waits
\* for a transit lock holds neither the message lock nor the tag lock, and a
\* session that is not inside save holds no lock, so every lock that is held
\* is held by a session that will release it.
C19_EveryLockReleased ==
    \A s \in Sessions :
        /\ At(s, "net_acquire") => ~HoldsMsg(s) /\ ~HoldsTag(s)
        /\ ~Active(s) => LocksHeldBy(s) = {}

\* the call of session s saves a message that has its id and whose parent is
\* an id with no record in the message table
DanglingParentCall(s) ==
    /\ Active(s)
    /\ LET f == stack[s][1] IN
        /\ f.obj.idx # None
        /\ f.obj.parent # None
        /\ f.obj.parent # f.obj.idx
        /\ ~MsgExists(Val(f.obj.parent))

\* C20: a save of a message whose parent has no record changes no other
\* message's record and writes no transit or queue entry, and it ends only
\* with KeyError raised to its caller; at that point the record of the
\* message, with the dangling parent, and its tag-table entries are persisted.
C20_DanglingParent ==
    [][\A s \in Sessions :
        DanglingParentCall(s) =>
            LET f == stack[s][1]
                idx == Val(f.obj.idx)
            IN  /\ \A k \in DbKeys(msgdb) \ {MsgKey(idx)} :
                    DbHas(msgdb', k) /\ DbGet(msgdb', k) = DbGet(msgdb, k)
                /\ DbKeys(msgdb') \subseteq DbKeys(msgdb) \cup {MsgKey(idx)}
                /\ transdb' = transdb /\ queuedb' = queuedb /\ netlog' = netlog
                /\ (~Active(s))' =>
                    /\ Len(stack[s]) = 1 /\ f.pc = "thread"
                    /\ result'[s] = [status |-> "KeyError", value |-> None]
                    /\ cur'[s] = Some(f.obj)
                    /\ DbHas(msgdb', MsgKey(idx))
                    /\ DbGet(msgdb', MsgKey(idx)) = f.obj
                    /\ DbGet(msgdb', MsgKey(idx)).parent = f.entry.parent
                    /\ DbGet(msgdb', MsgKey(idx)).children = f.entry.children
                    /\ \A t \in f.obj.tags : DbHas(tagdb', t) /\ idx \in DbGet(tagdb', t)
                    /\ \A t \in DbKeys(tagdb') \ f.obj.tags : idx \notin DbGet(tagdb', t)
                    /\ FirstSave(f) =>
                        \A t \in Tags : ~DbHas(transdb'[t], idx) /\ ~DbHas(queuedb'[t], idx)
                    /\ LocksHeldBy(s)' = {}]_vars

\* the first message of a board, tagged local and naming message 1 as its
\* parent, was saved: the call raised KeyError, and the record and the tag
\* entry are there
C20_Witness ==
    \E s \in Sessions :
        /\ result[s].status = "KeyError"
        /\ ~Active(s)
        /\ cur[s] # None
        /\ Val(cur[s]).idx = Some(0)
        /\ Val(cur[s]).parent = Some(1)
        /\ ~MsgExists(1)
        /\ MsgExists(0) /\ get_msg(0).parent = Some(1)
        /\ DbHas(tagdb, local) /\ DbGet(tagdb, local) = {0}
        /\ LocalIsServerTag /\ cfg.network_tags # None
        /\ netlog = <<>> /\ InTrans(0) = {} /\ InQueue(0) = {}

====
